---------------------------- MODULE Spec2Model ----------------------------
(***************************************************************************)
(* A model of the three scripts under Scripts/:                            *)
(*                                                                         *)
(*   test-aws-upload.py        the ingestion run: hash a file, put it in   *)
(*                             the bucket under a key derived from the     *)
(*                             hash and the file name, put a metadata item *)
(*                             keyed by the hash in the table.             *)
(*   create-dynamodb-table.py  create_file_metadata_table: create the      *)
(*                             table, wait for it, tolerate "in use".      *)
(*   aws-config-parser.py      flatten_config and format_shell.            *)
(*                                                                         *)
(* Each script has its own specification (Spec, SpecProvision, SpecConfig) *)
(* over the same variables; the variables of the other scripts stay at     *)
(* their initial values.                                                   *)
(***************************************************************************)
EXTENDS Integers, Sequences, FiniteSets, TLC

VARIABLES
    \* ---- test-aws-upload.py --------------------------------------------
    files,        \* the file system: path -> bytes, or NoFile
    bucket,       \* the S3 bucket: a function from the keys it holds to bytes
    table,        \* the DynamoDB table: a set of items
    now,          \* the clock datetime.utcnow() reads
    pc,           \* per run of main(): where it is
    file_path,    \* per run: main's local file_path
    file_hash,    \* per run: main's local file_hash
    s3_key,       \* per run: main's local s3_key
    item,         \* per run: the Item store_in_dynamodb built
    err,          \* per run: the call that raised, and why
    out,          \* per run: the lines printed
    finished,     \* the runs that have ended, in the order they ended
    begun,        \* per run: Len(finished) when the run began
    \* ---- create-dynamodb-table.py --------------------------------------
    tables,       \* the DynamoDB service: table name -> ABSENT/CREATING/ACTIVE
    ppc,          \* per caller of create_file_metadata_table: where it is
    pname,        \* per caller: the table_name argument
    resp,         \* per caller: how create_table answered
    attempts,     \* per caller: polls the table_exists waiter has made
    result,       \* per caller: what the call gave back
    history,      \* the calls that have returned, in order
    started,      \* per caller: Len(history) when the call began
    \* ---- aws-config-parser.py ------------------------------------------
    cpc,          \* where main is
    args,         \* the command line: section and key
    config,       \* the content of the configuration file
    section_data, \* main's local section_data
    flat,         \* main's local flat
    shell_lines,  \* main's local shell_lines
    printed       \* the lines printed so far

ingestVars == <<files, bucket, table, now, pc, file_path, file_hash, s3_key,
                item, err, out, finished, begun>>
provVars   == <<tables, ppc, pname, resp, attempts, result, history, started>>
confVars   == <<cpc, args, config, section_data, flat, shell_lines, printed>>
vars       == <<ingestVars, provVars, confVars>>

(***************************************************************************)
(*                        test-aws-upload.py                               *)
(***************************************************************************)

\* Bounds of the ingestion model.
MaxRuns  == 2
MaxClock == 1

Runs == 1..MaxRuns

S3_PREFIX == "images/"

\* File paths as sequences of components.  The script's own file is
\* <<"test_image.heic">>; the other two give a second content and a second
\* name, so that the functions of a path, a hash and a name are exercised on
\* more than one value.
Paths == { <<"test_image.heic">>,
           <<"tmp", "test_image.heic">>,
           <<"tmp", "test.bin">> }

NoFile == "<no file>"

\* What create_test_image writes at a path: a fixed content per path, as the
\* literal of the script is fixed.  The write is taken as one step, so a
\* file that exists holds its whole content: the input of a run is stable
\* while the run reads it (once to hash it, once to upload it).
SourceBytes(p) ==
    IF p = <<"test_image.heic">> THEN "Test image content" ELSE "hello world"

\* hashlib.sha256(...).hexdigest() on the contents used.
SHA256(bytes) ==
    CASE bytes = "Test image content" ->
           "da319b0c8510aa315616a77e1d6009f36fd6ea18c588360a95892d0664a3bb57"
      [] bytes = "hello world" ->
           "b94d27b9934d3e08a52e52d7da7dabfac484efe37a5380ee9088f7ace2efcde9"

\* os.path.basename: the last component of the path.
Basename(p) == p[Len(p)]

\* datetime.utcnow().isoformat() for clock reading t.
IsoFormat(t) == "2025-05-01T00:00:0" \o ToString(t)

\* A faulty variant of S3Key: a key made from the time, not from the content.
S3Key_Timestamped(hash, file_name) ==
    S3_PREFIX \o ToString(now) \o "__" \o file_name

\* upload_to_s3, line 36: the key of the object.
S3Key(hash, file_name) == S3_PREFIX \o hash \o "__" \o file_name

\* s3.put_object: the bucket holds body under key, replacing what was there.
PutObject(bkt, key, body) ==
    [k \in DOMAIN bkt \cup {key} |-> IF k = key THEN body ELSE bkt[k]]

NoItem == [file_hash |-> "", s3_key |-> "", file_name |-> "",
           upload_timestamp |-> "", status |-> ""]

\* store_in_dynamodb, lines 62-68: the Item.
Item(key, hash, file_name) ==
    [file_hash |-> hash, s3_key |-> key, file_name |-> file_name,
     upload_timestamp |-> IsoFormat(now), status |-> "uploaded"]

\* A faulty variant of PutItem: the item is added and nothing is replaced.
PutItem_Append(tbl, it) == tbl \cup {it}

\* dynamodb.put_item on a table whose partition key is file_hash: the item
\* replaces the item with the same file_hash, if there is one.
PutItem(tbl, it) == {x \in tbl : x.file_hash # it.file_hash} \cup {it}

\* A faulty variant of PutItemAccepted: a put conditional on the key being new.
PutItemAccepted_IfAbsent(tbl, it) == \A x \in tbl : x.file_hash # it.file_hash

\* put_item is called without a ConditionExpression: the service accepts the
\* item whatever the table holds.
PutItemAccepted(tbl, it) == TRUE

NoErr == [step |-> "none", cause |-> "none"]

\* Runs are numbered in the order in which they begin.
NextToBegin(r) == pc[r] = "idle" /\ \A q \in Runs : q < r => pc[q] # "idle"

\* A step of this script leaves the other scripts' state alone.
IngestOnly == UNCHANGED <<provVars, confVars>>

\* main's except clause, lines 94-95.
Failed(r, step, cause, lines) ==
    /\ pc'  = [pc  EXCEPT ![r] = "FAILED"]
    /\ err' = [err EXCEPT ![r] = [step |-> step, cause |-> cause]]
    /\ out' = [out EXCEPT ![r] = @ \o lines \o <<"Process failed">>]
    /\ finished' = Append(finished, r)

IngestInit ==
    /\ files     = [p \in Paths |-> NoFile]
    /\ bucket    = <<>>
    /\ table     = {}
    /\ now       = 0
    /\ pc        = [r \in Runs |-> "idle"]
    /\ file_path = [r \in Runs |-> <<>>]
    /\ file_hash = [r \in Runs |-> ""]
    /\ s3_key    = [r \in Runs |-> ""]
    /\ item      = [r \in Runs |-> NoItem]
    /\ err       = [r \in Runs |-> NoErr]
    /\ out       = [r \in Runs |-> <<>>]
    /\ finished  = <<>>
    /\ begun     = [r \in Runs |-> 0]

\* main, lines 79-80: create_test_image writes the file.
CreateTestImage(r, p) ==
    /\ NextToBegin(r)
    /\ files' = [files EXCEPT ![p] = SourceBytes(p)]
    /\ file_path' = [file_path EXCEPT ![r] = p]
    /\ pc' = [pc EXCEPT ![r] = "START"]
    /\ out' = [out EXCEPT ![r] = @ \o <<"Created test image">>]
    /\ UNCHANGED <<bucket, table, now, file_hash, s3_key, item, err>>
    /\ begun' = [begun EXCEPT ![r] = Len(finished)]
    /\ UNCHANGED finished
    /\ IngestOnly

\* main, lines 79, 94-95: open() raises.
CreateTestImageRaises(r) ==
    /\ NextToBegin(r)
    /\ Failed(r, "create_test_image", "fault", <<>>)
    /\ UNCHANGED <<files, bucket, table, now, file_path, file_hash, s3_key, item>>
    /\ begun' = [begun EXCEPT ![r] = Len(finished)]
    /\ IngestOnly

\* main, lines 83-84: calculate_file_hash reads the file and hashes it.
CalculateFileHash(r) ==
    /\ pc[r] = "START"
    /\ files[file_path[r]] # NoFile
    /\ file_hash' = [file_hash EXCEPT ![r] = SHA256(files[file_path[r]])]
    /\ pc' = [pc EXCEPT ![r] = "FINGERPRINTED"]
    /\ out' = [out EXCEPT ![r] = @ \o <<"File hash (signature)">>]
    /\ UNCHANGED <<files, bucket, table, now, file_path, s3_key, item, err>>
    /\ UNCHANGED <<finished, begun>>
    /\ IngestOnly

\* main, lines 83, 94-95: reading the file raises.
CalculateFileHashRaises(r) ==
    /\ pc[r] = "START"
    /\ Failed(r, "calculate_file_hash", "fault", <<>>)
    /\ UNCHANGED <<files, bucket, table, now, file_path, file_hash, s3_key, item>>
    /\ UNCHANGED begun
    /\ IngestOnly

\* upload_to_s3, lines 35-48, and main, line 87: the file is read again and
\* put under the key.
UploadToS3(r) ==
    /\ pc[r] = "FINGERPRINTED"
    /\ files[file_path[r]] # NoFile
    /\ LET key == S3Key(file_hash[r], Basename(file_path[r]))
       IN /\ bucket' = PutObject(bucket, key, files[file_path[r]])
          /\ s3_key' = [s3_key EXCEPT ![r] = key]
    /\ pc' = [pc EXCEPT ![r] = "STORED"]
    /\ out' = [out EXCEPT ![r] = @ \o <<"Successfully uploaded to S3">>]
    /\ UNCHANGED <<files, table, now, file_path, file_hash, item, err>>
    /\ UNCHANGED <<finished, begun>>
    /\ IngestOnly

\* A faulty variant of UploadToS3Raises: the exception is printed and not
\* raised again, and the key is returned.
UploadToS3Swallows(r, written) ==
    /\ pc[r] = "FINGERPRINTED"
    /\ s3_key' = [s3_key EXCEPT ![r] = S3Key(file_hash[r], Basename(file_path[r]))]
    /\ pc' = [pc EXCEPT ![r] = "STORED"]
    /\ out' = [out EXCEPT ![r] = @ \o <<"Error uploading to S3">>]
    /\ UNCHANGED <<files, bucket, table, now, file_path, file_hash, item, err>>
    /\ UNCHANGED <<finished, begun>>
    /\ IngestOnly

\* upload_to_s3, lines 49-51, and main, lines 94-95: put_object raises, the
\* exception is printed and raised again, main prints it and ends.  The
\* request may have reached the bucket before the failure (written) or not.
UploadToS3Raises(r, written) ==
    /\ pc[r] = "FINGERPRINTED"
    /\ bucket' = IF written /\ files[file_path[r]] # NoFile
                 THEN PutObject(bucket,
                                S3Key(file_hash[r], Basename(file_path[r])),
                                files[file_path[r]])
                 ELSE bucket
    /\ Failed(r, "upload_to_s3", "fault", <<"Error uploading to S3">>)
    /\ UNCHANGED <<files, table, now, file_path, file_hash, s3_key, item>>
    /\ UNCHANGED begun
    /\ IngestOnly

\* store_in_dynamodb, lines 60-71, and main, line 90.
StoreInDynamoDB(r) ==
    /\ pc[r] = "STORED"
    /\ LET it == Item(s3_key[r], file_hash[r], Basename(file_path[r]))
       IN /\ item' = [item EXCEPT ![r] = it]
          /\ IF PutItemAccepted(table, it)
             THEN /\ table' = PutItem(table, it)
                  /\ pc' = [pc EXCEPT ![r] = "INDEXED"]
                  /\ out' = [out EXCEPT ![r] =
                               @ \o <<"Successfully stored metadata in DynamoDB">>]
                  /\ UNCHANGED <<err, finished>>
             ELSE /\ table' = table
                  /\ Failed(r, "store_in_dynamodb", "conflict",
                            <<"Error storing in DynamoDB">>)
    /\ UNCHANGED <<files, bucket, now, file_path, file_hash, s3_key>>
    /\ UNCHANGED begun
    /\ IngestOnly

\* A faulty variant of StoreInDynamoDBRaises: the exception is printed and
\* not raised again.
StoreInDynamoDBSwallows(r, written) ==
    /\ pc[r] = "STORED"
    /\ pc' = [pc EXCEPT ![r] = "INDEXED"]
    /\ err' = [err EXCEPT ![r] = [step |-> "store_in_dynamodb", cause |-> "fault"]]
    /\ out' = [out EXCEPT ![r] = @ \o <<"Error storing in DynamoDB">>]
    /\ UNCHANGED <<files, bucket, table, now, file_path, file_hash, s3_key, item>>
    /\ UNCHANGED <<finished, begun>>
    /\ IngestOnly

\* store_in_dynamodb, lines 72-74, and main, lines 94-95: put_item raises.
\* The item may have reached the table before the failure (written) or not.
StoreInDynamoDBRaises(r, written) ==
    /\ pc[r] = "STORED"
    /\ LET it == Item(s3_key[r], file_hash[r], Basename(file_path[r]))
       IN /\ item' = [item EXCEPT ![r] = it]
          /\ table' = IF written THEN PutItem(table, it) ELSE table
    /\ Failed(r, "store_in_dynamodb", "fault", <<"Error storing in DynamoDB">>)
    /\ UNCHANGED <<files, bucket, now, file_path, file_hash, s3_key>>
    /\ UNCHANGED begun
    /\ IngestOnly

\* main, line 92.
Complete(r) ==
    /\ pc[r] = "INDEXED"
    /\ pc' = [pc EXCEPT ![r] = "DONE"]
    /\ out' = [out EXCEPT ![r] = @ \o <<"Process completed successfully!">>]
    /\ UNCHANGED <<files, bucket, table, now, file_path, file_hash, s3_key,
                   item, err>>
    /\ finished' = Append(finished, r)
    /\ UNCHANGED begun
    /\ IngestOnly

\* Time passes.
Tick ==
    /\ now < MaxClock
    /\ now' = now + 1
    /\ UNCHANGED <<files, bucket, table, pc, file_path, file_hash, s3_key,
                   item, err, out, finished, begun>>
    /\ UNCHANGED <<finished, begun>>
    /\ IngestOnly

IngestNext ==
    \/ \E r \in Runs, p \in Paths : CreateTestImage(r, p)
    \/ \E r \in Runs : CreateTestImageRaises(r)
    \/ \E r \in Runs : CalculateFileHash(r)
    \/ \E r \in Runs : CalculateFileHashRaises(r)
    \/ \E r \in Runs : UploadToS3(r)
    \/ \E r \in Runs, written \in BOOLEAN : UploadToS3Raises(r, written)
    \/ \E r \in Runs : StoreInDynamoDB(r)
    \/ \E r \in Runs, written \in BOOLEAN : StoreInDynamoDBRaises(r, written)
    \/ \E r \in Runs : Complete(r)
    \/ Tick

(***************************************************************************)
(*                      create-dynamodb-table.py                           *)
(***************************************************************************)

\* Bounds of the provisioning model.  WaiterMaxAttempts stands for the
\* max_attempts of the table_exists waiter, which polls a bounded number
\* of times and then raises WaiterError.
MaxCallers        == 2
WaiterMaxAttempts == 2

Callers == 1..MaxCallers

\* The name the script creates, and the name test-aws-upload.py writes to.
TableNames == {"signal-file-metadata", "SignalMetadata"}

ProvOnly == UNCHANGED <<ingestVars, confVars>>

ProvInit ==
    /\ tables   = [n \in TableNames |-> "ABSENT"]
    /\ ppc      = [c \in Callers |-> "idle"]
    /\ pname    = [c \in Callers |-> ""]
    /\ resp     = [c \in Callers |-> "none"]
    /\ attempts = [c \in Callers |-> 0]
    /\ result   = [c \in Callers |-> "none"]
    /\ history  = <<>>
    /\ started  = [c \in Callers |-> 0]

\* The call ends: what it gave back is recorded.
Return(c, answer, value) ==
    /\ ppc' = [ppc EXCEPT ![c] = "done"]
    /\ resp' = [resp EXCEPT ![c] = answer]
    /\ result' = [result EXCEPT ![c] = value]
    /\ history' = Append(history, [caller |-> c, name |-> pname[c],
                                   resp |-> answer, result |-> value])

\* A faulty variant of ExceptClientError: every ClientError is an error.
ExceptClientError_NoInUse(code) == "False"

\* create_file_metadata_table, lines 41-47: the except ClientError clause.
ExceptClientError(code) ==
    IF code = "ResourceInUseException" THEN "True" ELSE "False"

\* create_file_metadata_table is called, lines 6-7.
Call(c, name) ==
    /\ ppc[c] = "idle"
    /\ ppc' = [ppc EXCEPT ![c] = "create_table"]
    /\ pname' = [pname EXCEPT ![c] = name]
    /\ started' = [started EXCEPT ![c] = Len(history)]
    /\ UNCHANGED <<tables, resp, attempts, result, history>>
    /\ ProvOnly

\* Lines 10-35: create_table succeeds on a table that does not exist; the
\* service starts creating it.
CreateTable(c) ==
    /\ ppc[c] = "create_table"
    /\ tables[pname[c]] = "ABSENT"
    /\ tables' = [tables EXCEPT ![pname[c]] = "CREATING"]
    /\ ppc' = [ppc EXCEPT ![c] = "waiting"]
    /\ resp' = [resp EXCEPT ![c] = "Created"]
    /\ UNCHANGED <<pname, attempts, result, history, started>>
    /\ ProvOnly

\* Lines 10, 41-44: the table exists (being created or active): the service
\* answers ResourceInUseException, a ClientError.
CreateTableInUse(c) ==
    /\ ppc[c] = "create_table"
    /\ tables[pname[c]] # "ABSENT"
    /\ Return(c, "ResourceInUseException",
              ExceptClientError("ResourceInUseException"))
    /\ UNCHANGED <<tables, pname, attempts, started>>
    /\ ProvOnly

\* Lines 10, 41-47: the service answers with another ClientError.
CreateTableClientError(c, code) ==
    /\ ppc[c] = "create_table"
    /\ Return(c, code, ExceptClientError(code))
    /\ UNCHANGED <<tables, pname, attempts, started>>
    /\ ProvOnly

\* Line 10: create_table raises an exception that is no ClientError (no
\* connection, no credentials); no except clause catches it.
CreateTableRaises(c) ==
    /\ ppc[c] = "create_table"
    /\ Return(c, "EndpointConnectionError", "raise EndpointConnectionError")
    /\ UNCHANGED <<tables, pname, attempts, started>>
    /\ ProvOnly

\* Lines 37-39: one poll of the table_exists waiter finds the table active.
WaiterSuccess(c) ==
    /\ ppc[c] = "waiting"
    /\ tables[pname[c]] = "ACTIVE"
    /\ Return(c, resp[c], "True")
    /\ UNCHANGED <<tables, pname, attempts, started>>
    /\ ProvOnly

\* Line 37: one poll of the waiter finds the table not active yet, and
\* polls remain.
WaiterRetry(c) ==
    /\ ppc[c] = "waiting"
    /\ tables[pname[c]] # "ACTIVE"
    /\ attempts[c] + 1 < WaiterMaxAttempts
    /\ attempts' = [attempts EXCEPT ![c] = @ + 1]
    /\ UNCHANGED <<tables, ppc, pname, resp, result, history, started>>
    /\ ProvOnly

\* Line 37: the last poll of the waiter finds the table not active: wait
\* raises WaiterError, which is no ClientError; no except clause catches it.
WaiterMaxAttemptsExceeded(c) ==
    /\ ppc[c] = "waiting"
    /\ tables[pname[c]] # "ACTIVE"
    /\ attempts[c] + 1 >= WaiterMaxAttempts
    /\ attempts' = [attempts EXCEPT ![c] = @ + 1]
    /\ Return(c, resp[c], "raise WaiterError")
    /\ UNCHANGED <<tables, pname, started>>
    /\ ProvOnly

\* The service finishes creating a table.
TableBecomesActive(n) ==
    /\ tables[n] = "CREATING"
    /\ tables' = [tables EXCEPT ![n] = "ACTIVE"]
    /\ UNCHANGED <<ppc, pname, resp, attempts, result, history, started>>
    /\ ProvOnly

OtherClientErrors == {"AccessDeniedException", "LimitExceededException"}

ProvNext ==
    \/ \E c \in Callers, n \in TableNames : Call(c, n)
    \/ \E c \in Callers : CreateTable(c)
    \/ \E c \in Callers : CreateTableInUse(c)
    \/ \E c \in Callers, code \in OtherClientErrors : CreateTableClientError(c, code)
    \/ \E c \in Callers : CreateTableRaises(c)
    \/ \E c \in Callers : WaiterSuccess(c)
    \/ \E c \in Callers : WaiterRetry(c)
    \/ \E c \in Callers : WaiterMaxAttemptsExceeded(c)
    \/ \E n \in TableNames : TableBecomesActive(n)

(***************************************************************************)
(*                        aws-config-parser.py                             *)
(***************************************************************************)

\* Bound of the configuration model: the entries of one JSON object.  The
\* documents nest two objects deep.
MaxEntries == 2

\* Strings are sequences of characters, so that upper() and the joining of
\* keys are computed on them.
K_s3        == <<"s", "3">>
K_bucket    == <<"b", "u", "c", "k", "e", "t">>
K_s3_bucket == <<"s", "3", "_", "b", "u", "c", "k", "e", "t">>
ConfigKeys  == {K_s3, K_bucket, K_s3_bucket}

\* A JSON value: a string or a boolean (val: its text), or an object (a
\* Python dict; items: its entries <<key, value>> in insertion order, the
\* keys distinct).
JStr(chars)    == [kind |-> "str",  val |-> chars, items |-> <<>>]
JBool(b)       == [kind |-> "bool", items |-> <<>>,
                   val |-> IF b THEN <<"t", "r", "u", "e">>
                                ELSE <<"f", "a", "l", "s", "e">>]
JDict(entries) == [kind |-> "dict", val |-> <<>>, items |-> entries]
LeafValues     == {JStr(<<"x">>), JBool(TRUE)}

\* The objects with at most MaxEntries entries whose values are in vals.
DictsOver(vals) ==
    { e \in UNION { [1..n -> ConfigKeys \X vals] : n \in 0..MaxEntries } :
        \A i, j \in DOMAIN e : i # j => e[i][1] # e[j][1] }

InnerDicts == { JDict(e) : e \in DictsOver(LeafValues) }
Documents  == DictsOver(LeafValues \cup InnerDicts)

NoArg    == <<>>
Sections == {<<"a", "l", "l">>, K_s3}
ArgKeys  == {NoArg, K_bucket}

ConfOnly == UNCHANGED <<ingestVars, provVars>>

\* No run of the parser.
ConfIdle ==
    /\ cpc = "idle"
    /\ args = [section |-> <<"a", "l", "l">>, key |-> NoArg]
    /\ config = <<>>
    /\ section_data = JDict(<<>>)
    /\ flat = <<>>
    /\ shell_lines = <<>>
    /\ printed = <<>>

\* main has parsed its arguments (lines 68-82); the file holds a document.
ConfInit ==
    /\ cpc = "start"
    /\ args \in [section : Sections, key : ArgKeys]
    /\ config \in Documents
    /\ section_data = JDict(<<>>)
    /\ flat = <<>>
    /\ shell_lines = <<>>
    /\ printed = <<>>

\* k in d, d[k] and d[k] = v on a dict.
HasKey(d, k) == \E i \in DOMAIN d : d[i][1] = k
Get(d, k)    == d[CHOOSE i \in DOMAIN d : d[i][1] = k][2]
DictSet(d, k, v) ==
    IF HasKey(d, k)
    THEN [i \in DOMAIN d |-> IF d[i][1] = k THEN <<k, v>> ELSE d[i]]
    ELSE Append(d, <<k, v>>)

\* dict.update: the entries of e are set in d, in order.
RECURSIVE DictUpdate(_, _)
DictUpdate(d, e) ==
    IF e = <<>> THEN d
    ELSE DictUpdate(DictSet(d, Head(e)[1], Head(e)[2]), Tail(e))

\* line 59: new_key.
NewKey(parent_key, sep, k) ==
    IF parent_key # <<>> THEN parent_key \o sep \o k ELSE k

\* flatten_config, lines 52-64; FlattenLoop is its for loop over the
\* entries left, with the items collected so far.
RECURSIVE FlattenLoop(_, _, _, _)
FlattenLoop(entries, parent_key, sep, items) ==
    IF entries = <<>> THEN items
    ELSE LET k == Head(entries)[1]
             v == Head(entries)[2]
             new_key == NewKey(parent_key, sep, k)
         IN FlattenLoop(Tail(entries), parent_key, sep,
                IF v.kind = "dict"
                THEN DictUpdate(items, FlattenLoop(v.items, new_key, sep, <<>>))
                ELSE DictSet(items, new_key, v))

flatten_config(cfg, parent_key, sep) == FlattenLoop(cfg, parent_key, sep, <<>>)

\* str.upper on the characters used.
UpperChar(c) ==
    CASE c = "a" -> "A" [] c = "b" -> "B" [] c = "c" -> "C" [] c = "e" -> "E"
      [] c = "k" -> "K" [] c = "l" -> "L" [] c = "s" -> "S" [] c = "t" -> "T"
      [] c = "u" -> "U" [] c = "x" -> "X" [] OTHER -> c
Upper(str) == [i \in 1..Len(str) |-> UpperChar(str[i])]

\* What an f-string makes of a leaf value: str(v).
PyStr(v) ==
    CASE v.kind = "str" -> v.val
      [] v.kind = "bool" ->
           IF v = JBool(TRUE) THEN <<"T", "r", "u", "e">>
                              ELSE <<"F", "a", "l", "s", "e">>

\* format_shell, lines 46-48: one line.
ShellLine(prefix, k, v) == Upper(prefix \o k) \o <<"=", "'">> \o PyStr(v) \o <<"'">>

\* format_shell, lines 38-49.
format_shell(vars_dict, prefix) ==
    [i \in DOMAIN vars_dict |-> ShellLine(prefix, vars_dict[i][1], vars_dict[i][2])]

\* main, lines 85-92: load_config; the file is missing or is not JSON.
LoadConfigFails ==
    /\ cpc = "start"
    /\ cpc' = "exit 1"
    /\ UNCHANGED <<args, config, section_data, flat, shell_lines, printed>>
    /\ ConfOnly

\* main, lines 85-99, and extract_section, lines 26-35.
ExtractSection ==
    /\ cpc = "start"
    /\ IF args.section = <<"a", "l", "l">>
       THEN /\ section_data' = JDict(config)
            /\ cpc' = "extracted"
       ELSE IF HasKey(config, args.section)
       THEN /\ section_data' = Get(config, args.section)
            /\ cpc' = "extracted"
       ELSE /\ section_data' = section_data
            /\ cpc' = "exit 1"
    /\ UNCHANGED <<args, config, flat, shell_lines, printed>>
    /\ ConfOnly

\* main, lines 102-109: a key was asked for.  On a section that is an
\* object its value is printed (kept here as the value, not as its text),
\* or the key is reported missing; on a section that is no object, main
\* ends without printing a value.
KeyLookup ==
    /\ cpc = "extracted"
    /\ args.key # NoArg
    /\ IF section_data.kind = "dict" /\ HasKey(section_data.items, args.key)
       THEN /\ printed' = <<Get(section_data.items, args.key)>>
            /\ cpc' = "exit 0"
       ELSE /\ printed' = printed
            /\ cpc' = "exit 1"
    /\ UNCHANGED <<args, config, section_data, flat, shell_lines>>
    /\ ConfOnly

\* main, line 112.  flatten_config of a section that is no object raises
\* AttributeError.
Flatten ==
    /\ cpc = "extracted"
    /\ args.key = NoArg
    /\ IF section_data.kind = "dict"
       THEN /\ flat' = flatten_config(section_data.items, <<>>, <<"_">>)
            /\ cpc' = "flattened"
       ELSE /\ flat' = flat
            /\ cpc' = "AttributeError"
    /\ UNCHANGED <<args, config, section_data, shell_lines, printed>>
    /\ ConfOnly

\* main, line 113.
Format ==
    /\ cpc = "flattened"
    /\ shell_lines' = format_shell(flat, <<>>)
    /\ cpc' = "formatted"
    /\ UNCHANGED <<args, config, section_data, flat, printed>>
    /\ ConfOnly

\* main, lines 115-116: the next line is printed.
PrintLine ==
    /\ cpc = "formatted"
    /\ Len(printed) < Len(shell_lines)
    /\ printed' = Append(printed, shell_lines[Len(printed) + 1])
    /\ UNCHANGED <<cpc, args, config, section_data, flat, shell_lines>>
    /\ ConfOnly

\* main returns.
Exit ==
    /\ cpc = "formatted"
    /\ Len(printed) = Len(shell_lines)
    /\ cpc' = "exit 0"
    /\ UNCHANGED <<args, config, section_data, flat, shell_lines, printed>>
    /\ ConfOnly

ConfNext ==
    \/ LoadConfigFails
    \/ ExtractSection
    \/ KeyLookup
    \/ Flatten
    \/ Format
    \/ PrintLine
    \/ Exit

(***************************************************************************)
(*                           Specifications                                *)
(***************************************************************************)

Init == IngestInit /\ ProvInit /\ ConfIdle

InitConfig == IngestInit /\ ProvInit /\ ConfInit

Next == IngestNext

Spec == Init /\ [][Next]_vars

SpecProvision == Init /\ [][ProvNext]_vars

SpecConfig == InitConfig /\ [][ConfNext]_vars


(***************************************************************************)
(*                    Properties of test-aws-upload.py                     *)
(***************************************************************************)

Started(r) == pc[r] # "idle"
Ended(r)   == pc[r] \in {"DONE", "FAILED"}

\* The position at which run r ended.
EndIndex(r) == CHOOSE i \in DOMAIN finished : finished[i] = r

\* Run r2 began after run r1 had ended.
After(r1, r2) == Ended(r1) /\ Started(r2) /\ EndIndex(r1) <= begun[r2]

\* Both runs have begun and neither began after the other ended.
Concurrent(r1, r2) ==
    /\ r1 # r2 /\ Started(r1) /\ Started(r2)
    /\ ~After(r1, r2) /\ ~After(r2, r1)

\* The input of run r: the bytes and the logical name.
Bytes(r) == SourceBytes(file_path[r])
Name(r)  == Basename(file_path[r])
SameInput(r1, r2) ==
    /\ Started(r1) /\ Started(r2)
    /\ file_path[r1] # <<>> /\ file_path[r2] # <<>>
    /\ Bytes(r1) = Bytes(r2) /\ Name(r1) = Name(r2)
SameBytes(r1, r2) ==
    /\ file_path[r1] # <<>> /\ file_path[r2] # <<>>
    /\ Bytes(r1) = Bytes(r2)

Printed(r, line) == \E i \in DOMAIN out[r] : out[r][i] = line

\* An item without its timestamp.
Untimed(it) == [file_hash |-> it.file_hash, s3_key |-> it.s3_key,
                file_name |-> it.file_name, status |-> it.status]

RecordsFor(hash) == {x \in table : x.file_hash = hash}

\* C1: a metadata record is in the table only if the bucket holds, under the
\* record's s3_key, an object whose bytes hash to the record's file_hash;
\* and a run whose put_object failed has built and written no record.
C1_RecordOnlyForStoredObject ==
    /\ \A x \in table :
         /\ x.s3_key \in DOMAIN bucket
         /\ SHA256(bucket[x.s3_key]) = x.file_hash
    /\ \A r \in Runs :
         err[r].step = "upload_to_s3" =>
            /\ item[r] = NoItem
            /\ ~Printed(r, "Successfully stored metadata in DynamoDB")

\* A record is in the table while some run's put_object has failed.
C1_Witness ==
    /\ table # {}
    /\ \E r \in Runs : err[r].step = "upload_to_s3" /\ pc[r] = "FAILED"

\* C5, as stated: two successive runs on the same bytes and name give the
\* same storage key and the same record, and the second does not fail
\* because of the first.
C5_SecondRunSameRecord ==
    \A r1, r2 \in Runs :
        (After(r1, r2) /\ SameInput(r1, r2)
           /\ pc[r1] = "DONE" /\ pc[r2] = "DONE") =>
            /\ s3_key[r1] = s3_key[r2]
            /\ item[r1] = item[r2]

C5_State ==
    \A r1, r2 \in Runs :
        (After(r1, r2) /\ SameInput(r1, r2) /\ pc[r1] = "DONE") =>
            /\ err[r2].cause # "conflict"
            /\ s3_key[r2] \in {"", s3_key[r1]}
            /\ item[r2] # NoItem => Untimed(item[r2]) = Untimed(item[r1])

C5_Step ==
    \A r1, r2 \in Runs :
        (After(r1, r2) /\ SameInput(r1, r2) /\ pc[r1] = "DONE") =>
            \* the second put_object leaves the bucket as it was
            /\ (pc[r2] = "FINGERPRINTED" /\ pc'[r2] = "STORED") =>
                  bucket' = bucket
            \* the second put_item leaves one record for the fingerprint,
            \* the first run's but for the timestamp
            /\ (pc[r2] = "STORED" /\ pc'[r2] = "INDEXED") =>
                  /\ Cardinality(RecordsFor(file_hash[r1])') = 1
                  /\ \A x \in RecordsFor(file_hash[r1])' :
                        Untimed(x) = Untimed(item[r1])

\* C5, amended: the second of two successive runs on the same bytes and
\* name does not fail because of the first, uses the same storage key,
\* leaves the bucket as it was and leaves one record for the fingerprint,
\* equal to the first run's in every field but upload_timestamp.
C5_SecondRunSameRecordButTimestamp == []C5_State /\ [][C5_Step]_vars

\* Two successive runs on the same input have both completed.
C5_Witness ==
    \E r1, r2 \in Runs :
        /\ After(r1, r2) /\ SameInput(r1, r2)
        /\ pc[r1] = "DONE" /\ pc[r2] = "DONE"
        /\ item[r1].upload_timestamp # item[r2].upload_timestamp

\* The first run's put_item failed, and an identical run followed it.
Recovers(r1, r2) ==
    /\ After(r1, r2) /\ SameInput(r1, r2)
    /\ err[r1].step = "store_in_dynamodb"

C6_State ==
    \A r1 \in Runs :
        err[r1].step = "store_in_dynamodb" =>
            \* the object stays stored: nothing is rolled back
            /\ s3_key[r1] \in DOMAIN bucket
            /\ bucket[s3_key[r1]] = Bytes(r1)
            /\ \A r2 \in Runs :
                 Recovers(r1, r2) =>
                    /\ err[r2].cause # "conflict"
                    /\ pc[r2] = "DONE" =>
                         /\ Cardinality(RecordsFor(file_hash[r2])) = 1
                         /\ \A x \in RecordsFor(file_hash[r2]) :
                              /\ x.s3_key \in DOMAIN bucket
                              /\ bucket[x.s3_key] = Bytes(r2)

C6_Step ==
    \A r1, r2 \in Runs :
        (Recovers(r1, r2) /\ pc[r2] = "STORED" /\ pc'[r2] = "INDEXED") =>
            /\ RecordsFor(file_hash[r2])' = {item'[r2]}
            /\ item'[r2].s3_key = s3_key[r1]

\* C6: when a run has stored the object and its put_item failed, the object
\* stays in the bucket; an identical run after it is not failed by what the
\* first left behind, and when it completes there is exactly one record for
\* the fingerprint, pointing at an object that holds the bytes (at the
\* moment of its put_item: at the object the first run stored).
C6_PartialFailureRecovery == []C6_State /\ [][C6_Step]_vars

\* An identical run has completed after a run whose put_item failed.
C6_Witness ==
    \E r1, r2 \in Runs : Recovers(r1, r2) /\ pc[r2] = "DONE"

Names == {Basename(p) : p \in Paths}

Order == { <<"idle", "START">>, <<"START", "FINGERPRINTED">>,
           <<"FINGERPRINTED", "STORED">>, <<"STORED", "INDEXED">>,
           <<"INDEXED", "DONE">> }
         \cup { <<s, "FAILED">> :
                  s \in {"idle", "START", "FINGERPRINTED", "STORED"} }

\* What a run has printed when it ends, by how it ended.
FinalOutput(r) ==
    CASE pc[r] = "DONE" ->
           <<"Created test image", "File hash (signature)",
             "Successfully uploaded to S3",
             "Successfully stored metadata in DynamoDB",
             "Process completed successfully!">>
      [] err[r].step = "create_test_image" -> <<"Process failed">>
      [] err[r].step = "calculate_file_hash" ->
           <<"Created test image", "Process failed">>
      [] err[r].step = "upload_to_s3" ->
           <<"Created test image", "File hash (signature)",
             "Error uploading to S3", "Process failed">>
      [] err[r].step = "store_in_dynamodb" ->
           <<"Created test image", "File hash (signature)",
             "Successfully uploaded to S3", "Error storing in DynamoDB",
             "Process failed">>

C9_State ==
    \A r \in Runs :
        /\ err[r] # NoErr <=> pc[r] = "FAILED"
        /\ Ended(r) => out[r] = FinalOutput(r)
        /\ err[r].step \in {"create_test_image", "calculate_file_hash"} =>
              s3_key[r] = "" /\ item[r] = NoItem
        /\ err[r].step = "upload_to_s3" => item[r] = NoItem
        /\ pc[r] = "DONE" => item[r] # NoItem /\ s3_key[r] # ""

C9_Step ==
    \A r \in Runs :
        /\ pc'[r] # pc[r] => <<pc[r], pc'[r]>> \in Order
        /\ Ended(r) =>
              /\ pc'[r] = pc[r] /\ out'[r] = out[r] /\ item'[r] = item[r]
              /\ s3_key'[r] = s3_key[r] /\ err'[r] = err[r]

\* C9: a run moves through START, FINGERPRINTED, STORED, INDEXED, DONE in
\* that order; a failing step ends it in FAILED, which it never leaves and
\* after which it does nothing: no put_object after a failed hash, no
\* put_item after a failed put_object; DONE is reached only after put_item
\* has succeeded.
C9_OrderedStepsFailedAbsorbing == []C9_State /\ [][C9_Step]_vars

\* One run has completed and another has failed at each step.
C9_Witness ==
    \E r1, r2 \in Runs :
        /\ pc[r1] = "DONE"
        /\ pc[r2] = "FAILED" /\ err[r2].step = "upload_to_s3"


(***************************************************************************)
(*                 Properties of create-dynamodb-table.py                  *)
(***************************************************************************)

Returned(c) == ppc[c] = "done"

\* Call c began after the call recorded at history[i] had returned.
InSuccession(i, c) ==
    /\ i \in DOMAIN history
    /\ ppc[c] # "idle" /\ started[c] >= i
    /\ pname[c] = history[i].name

\* C2: a call whose create_table is answered ResourceInUseException gives
\* True; a call whose create_table fails in any other way gives False or
\* raises, never True; so a call made after a call for the same name gave
\* True gives True as well, unless its create_table fails in another way.
C2_InUseIsSuccess ==
    /\ \A c \in Callers :
         Returned(c) =>
            /\ resp[c] = "ResourceInUseException" => result[c] = "True"
            /\ resp[c] \in OtherClientErrors => result[c] = "False"
            /\ resp[c] = "EndpointConnectionError" =>
                  result[c] = "raise EndpointConnectionError"
    /\ \A i \in DOMAIN history, c \in Callers :
         (InSuccession(i, c) /\ history[i].result = "True" /\ Returned(c)
            /\ resp[c] \notin OtherClientErrors \cup {"EndpointConnectionError"}) =>
               /\ resp[c] = "ResourceInUseException"
               /\ result[c] = "True"

\* A second call for the same name has returned after a first gave True.
C2_Witness ==
    \E i \in DOMAIN history, c \in Callers :
        /\ InSuccession(i, c) /\ history[i].result = "True" /\ Returned(c)
        /\ resp[c] = "ResourceInUseException"

\* C3: at the moment a call gives True, the table is active, whether the
\* call created the table or create_table answered that it exists.
C3_ReadyMeansUsable ==
    [][\A c \in Callers :
          (ppc[c] # "done" /\ ppc'[c] = "done" /\ result'[c] = "True") =>
              tables'[pname[c]] = "ACTIVE"]_vars

\* The outcome of a call, in the terms of the specification.
Outcome(c) ==
    CASE result[c] = "True" -> "ready"
      [] result[c] = "False" -> "StorageError"
      [] result[c] = "raise EndpointConnectionError" -> "StorageError"
      [] result[c] = "raise WaiterError" -> "ProvisionTimeout"
      [] OTHER -> "none"

\* C4: a call ends as ready, StorageError or ProvisionTimeout, and a call
\* that ends while the table it asked for exists and is not active ends as
\* ProvisionTimeout.
C4_EndsReadyErrorOrTimeout ==
    \A c \in Callers :
        Returned(c) =>
            /\ Outcome(c) \in {"ready", "StorageError", "ProvisionTimeout"}
            /\ (resp[c] \in {"Created", "ResourceInUseException"}
                  /\ tables[pname[c]] # "ACTIVE") =>
                      Outcome(c) = "ProvisionTimeout"


(***************************************************************************)
(*                   Properties of aws-config-parser.py                    *)
(***************************************************************************)

\* The leaves of a document: <<key path, value>>.
RECURSIVE LeafPaths(_, _)
LeafPaths(entries, path) ==
    UNION { IF entries[i][2].kind = "dict"
            THEN LeafPaths(entries[i][2].items, Append(path, entries[i][1]))
            ELSE { <<Append(path, entries[i][1]), entries[i][2]>> }
            : i \in DOMAIN entries }

\* The upper-cased keys of a path joined by "_".
RECURSIVE JoinUpper(_)
JoinUpper(path) ==
    IF Len(path) = 1 THEN Upper(path[1])
    ELSE Upper(path[1]) \o <<"_">> \o JoinUpper(Tail(path))

\* The assignment NAME='value' of a leaf.
ExpectedLine(leaf) ==
    JoinUpper(leaf[1]) \o <<"=", "'">> \o PyStr(leaf[2]) \o <<"'">>

Occurrences(lines, l) == Cardinality({i \in DOMAIN lines : lines[i] = l})

\* C10: when main has flattened a document and printed it for the shell,
\* the lines printed are exactly the assignments of the document's leaves,
\* one line per leaf: no leaf is missing and no line is printed for
\* anything else.
C10_OneAssignmentPerLeaf ==
    (cpc = "exit 0" /\ args.key = NoArg) =>
        LET leaves == LeafPaths(section_data.items, <<>>)
            lines  == {ExpectedLine(l) : l \in leaves}
                      \cup {printed[i] : i \in DOMAIN printed}
        IN \A l \in lines :
              Occurrences(printed, l) =
                  Cardinality({leaf \in leaves : ExpectedLine(leaf) = l})

=============================================================================
